---------------------------- MODULE Spec2Model ----------------------------
(***************************************************************************)
(* Cache-aware loop cost analysis (LoopCostAnalysis.h / .cpp).             *)
(*                                                                         *)
(* The model has two layers of state.  The INPUT is the analysed function: *)
(* its loop forest, the blocks of each loop, the instructions (GEPs) of    *)
(* the body blocks, and the answers of the symbolic evaluator.  It is      *)
(* drawn in Init and never changes.  The INSTANCE is one LoopCost object:  *)
(* LoopTripCounts, ReferenceGroups, LoopCosts and the cache data.          *)
(*                                                                         *)
(* Doubles are modelled as exact numbers in units of 1/LINE_SIZE, held as  *)
(* little-endian sequences of base-BigBase limbs (TLC's integers are 32    *)
(* bits wide; a product of three fallback trip counts already is not).     *)
(* The sentinel -1.0 is the one-limb sequence <<-LINE_SIZE>>.              *)
(***************************************************************************)
EXTENDS Integers, Sequences, FiniteSets, TLC

\* Number of loops of the analysed function.
NumLoops == 3

\* Cap on the number of calculateLoopCosts calls a client makes on one
\* instance (LoopTripCounts grows with every call).
MaxCalls == 2

\* CacheData::initCacheData: LineSize = 4.
LINE_SIZE == 4

\* #define STATIC_TRIP_COUNT 1000
STATIC_TRIP_COUNT == 1000

\* The trip count of every loop of the test (CHECK: TripCount: 5001).
TestTripCount == 5001

\* Number of values of the operand graph one ASTMatch call is followed on.
NumNodes == 3

\* Limb base of the exact arithmetic that stands for double.
BigBase == 10000

Loops == 1..NumLoops

\* Loop* null / "no parent".
NoLoop == 0

VARIABLES
    \* ---- input: the function under analysis (read-only) ----
    parent,         \* Loop -> parent Loop or NoLoop (the loop forest)
    rotated,        \* set of loops whose header is not their exiting block
    bodyKinds,      \* Loop -> sequence of "work"/"stub": the loop's own blocks
                    \*   besides header and latch, outside every sub-loop
    hasIV,          \* set of loops with a canonical induction variable
    tripOf,         \* Loop -> getSmallConstantTripCount (0: unavailable)
    bodySel,        \* Loop -> which instruction list its work block holds
    instrs,         \* Loop -> the GEPs of its work block, in instruction order
    nullDeref,      \* what the build does on DiffSCEV == nullptr
    headerWork,     \* set of loops whose header or latch holds instructions
                    \*   besides the loop control (a store, a call)
    graph,          \* the operand graph one ASTMatch call is made on, with
                    \*   the arguments Operand and P of the call
    \* ---- one LoopCost instance ----
    LineSize,       \* Cache.LineSize
    AccessOrder,    \* "ROWMAJOR" / "COLUMNMAJOR"
    LoopTripCounts, \* sequence of <<Loop, count>>
    ReferenceGroups,\* sequence of GEP ids
    LoopCosts,      \* map Loop -> cost (a function on the loops entered)
    \* ---- observation of the last operation ----
    match,          \* the call stack and the return value of that ASTMatch call
    last,           \* the last operation: op, the nests passed to this
                    \*   instance so far (calls), the path the last call
                    \*   took, and the instance before it
    pass            \* what LoopCostAnalysis::runOnFunction last produced

inputVars == <<parent, rotated, bodyKinds, hasIV, tripOf, bodySel, instrs, nullDeref,
               headerWork, graph>>
instVars == <<LineSize, AccessOrder, LoopTripCounts, ReferenceGroups, LoopCosts>>
vars == <<inputVars, instVars, match, last, pass>>

-----------------------------------------------------------------------------
\* Exact arithmetic standing for double.

RECURSIVE BigCarry(_, _)
\* Normalise a limb sequence: propagate carry c, drop leading zero limbs.
BigCarry(a, c) ==
    IF a = <<>> THEN (IF c = 0 THEN <<>> ELSE <<c % BigBase>> \o BigCarry(<<>>, c \div BigBase))
    ELSE LET s == Head(a) + c
             rest == BigCarry(Tail(a), s \div BigBase)
         IN  IF rest = <<>> /\ s % BigBase = 0 THEN <<>> ELSE <<s % BigBase>> \o rest

\* The number zero is the empty limb sequence after normalisation; costs keep
\* it as <<0>> so that a cost is never the empty sequence.
BigNorm(a) == LET n == BigCarry(a, 0) IN IF n = <<>> THEN <<0>> ELSE n

BigOf(n) == BigNorm(<<n>>)

BigMulSmall(a, k) == BigNorm([i \in 1..Len(a) |-> a[i] * k])

BigAdd(a, b) ==
    LET n == IF Len(a) > Len(b) THEN Len(a) ELSE Len(b)
        at(s, i) == IF i <= Len(s) THEN s[i] ELSE 0
    IN  BigNorm([i \in 1..n |-> at(a, i) + at(b, i)])

\* -1.0 in units of 1/LINE_SIZE.
Unknown == <<0 - LINE_SIZE>>


-----------------------------------------------------------------------------
\* The loop forest (LoopInfo) and the blocks of a loop.

RECURSIVE Contains(_, _)
\* Loop::contains(Loop*): M is L or nested in L.
Contains(L, M) ==
    IF M = NoLoop THEN FALSE
    ELSE IF M = L THEN TRUE
    ELSE Contains(L, parent[M])

\* The sorted sequence of a set of loops (sub-loop vectors keep program order,
\* which is the order of the loop numbers here).
RECURSIVE SortedSeq(_)
SortedSeq(S) ==
    IF S = {} THEN <<>>
    ELSE LET m == CHOOSE x \in S : \A y \in S : x <= y
         IN  <<m>> \o SortedSeq(S \ {m})

\* Loop::getSubLoops()
SubLoops(L) == SortedSeq({c \in Loops : parent[c] = L})

\* LoopInfo::begin()..end(): the top-level loops.
TopLevelLoops == SortedSeq({c \in Loops : parent[c] = NoLoop})

\* A block is <<owner loop, position>>: position 0 is the owner's header, -1
\* its latch, i >= 1 the i-th of its other blocks outside every sub-loop.
Header(L) == <<L, 0>>
Latch(L) == <<L, 0 - 1>>
OwnBlocks(L) == {Header(L), Latch(L)} \cup {<<L, i>> : i \in 1..Len(bodyKinds[L])}

\* Loop::block_begin()..block_end(): the blocks of L and of the loops in it.
BlocksOf(L) == UNION {OwnBlocks(M) : M \in {M \in Loops : Contains(L, M)}}

\* Loop::contains(BasicBlock*)
ContainsBlock(L, bb) == Contains(L, bb[1])

\* (*bb)->size() == 1 && (bbBr && bbBr->isUnconditional()): an empty block.
\* Headers (phi, compare, branch) and latches (increment, branch) never are.
IsEmptyBlock(bb) == bb[2] >= 1 /\ bodyKinds[bb[1]][bb[2]] = "stub"

\* IsRotatedLoop: L->getHeader() != L->getExitingBlock()
IsRotatedLoop(L) == L \in rotated

\* BlocksPerfectlyNestedUnder (callers guarantee exactly one sub-loop).
BlocksPerfectlyNestedUnder(L) ==
    LET Subloop == SubLoops(L)[1]
    IN  \A bb \in BlocksOf(L) :
            \/ bb = Header(L) \/ bb = Latch(L)
            \/ ContainsBlock(Subloop, bb)
            \/ IsEmptyBlock(bb)

\* hasSimpleHeaderLatch: a TODO in the source, it returns true.
hasSimpleHeaderLatch(L) == TRUE

\* getInnerSingleBB: the one block of L that is neither header, latch nor
\* empty; NoBlock (nullptr) when there is none or more than one.
NoBlock == <<NoLoop, 0>>

\* Mutant: the first block found is returned when there are several.
getInnerFirstBB(L) ==
    LET cand == {bb \in BlocksOf(L) :
                    bb # Header(L) /\ bb # Latch(L) /\ ~IsEmptyBlock(bb)}
    IN  IF cand # {} THEN CHOOSE bb \in cand : \A o \in cand : bb[2] <= o[2] ELSE NoBlock

getInnerSingleBB(L) ==
    LET cand == {bb \in BlocksOf(L) :
                    bb # Header(L) /\ bb # Latch(L) /\ ~IsEmptyBlock(bb)}
    IN  IF Cardinality(cand) = 1 THEN CHOOSE bb \in cand : TRUE ELSE NoBlock

\* IsPerfectNest(LN), LN listed outermost first and not empty.
RECURSIVE PerfectAbove(_, _, _)
\* The loop "for (l != le)" of IsPerfectNest, walking LN from position i down
\* to 1 with Subloop the loop just below.
PerfectAbove(LN, i, Subloop) ==
    IF i = 0 THEN TRUE
    ELSE LET L == LN[i]
         IN  IF \/ Len(SubLoops(L)) # 1
                \/ SubLoops(L)[1] # Subloop
                \/ IsRotatedLoop(L)
                \/ ~hasSimpleHeaderLatch(L)
                \/ ~BlocksPerfectlyNestedUnder(L)
             THEN FALSE
             ELSE PerfectAbove(LN, i - 1, L)

IsPerfectNest(LN) ==
    LET Innermost == LN[Len(LN)]
    IN  IF \/ SubLoops(Innermost) # <<>>
           \/ IsRotatedLoop(Innermost)
           \/ ~hasSimpleHeaderLatch(Innermost)
        THEN FALSE
        ELSE PerfectAbove(LN, Len(LN) - 1, Innermost)

RECURSIVE PopulateFrom(_, _, _)
\* Mutant: a rotated loop with a sub-loop is added to the nest.
PopulateRotatedToo(L, nests) ==
    IF SubLoops(L) = <<>>
    THEN IF ~IsRotatedLoop(L) /\ hasSimpleHeaderLatch(L)
         THEN <<TRUE, Append(nests, <<L>>)>>
         ELSE <<FALSE, nests>>
    ELSE LET r == PopulateFrom(SubLoops(L), TRUE, nests)
             PerfectSubnest == r[1]
             found == r[2]
         IN  IF /\ PerfectSubnest
                /\ Len(SubLoops(L)) = 1
                /\ hasSimpleHeaderLatch(L)
                /\ BlocksPerfectlyNestedUnder(L)
             THEN <<TRUE, [found EXCEPT ![Len(found)] = <<L>> \o @]>>
             ELSE <<FALSE, found>>

\* Mutant: the blocks of a loop with a sub-loop are not looked at.
PopulateNoBlockCheck(L, nests) ==
    IF SubLoops(L) = <<>>
    THEN IF ~IsRotatedLoop(L) /\ hasSimpleHeaderLatch(L)
         THEN <<TRUE, Append(nests, <<L>>)>>
         ELSE <<FALSE, nests>>
    ELSE LET r == PopulateFrom(SubLoops(L), TRUE, nests)
             PerfectSubnest == r[1]
             found == r[2]
         IN  IF /\ PerfectSubnest
                /\ Len(SubLoops(L)) = 1
                /\ ~IsRotatedLoop(L)
                /\ hasSimpleHeaderLatch(L)
             THEN <<TRUE, [found EXCEPT ![Len(found)] = <<L>> \o @]>>
             ELSE <<FALSE, found>>

\* Mutant: the longer nest is pushed as a new nest, the shorter one stays.
PopulateCopy(L, nests) ==
    IF SubLoops(L) = <<>>
    THEN IF ~IsRotatedLoop(L) /\ hasSimpleHeaderLatch(L)
         THEN <<TRUE, Append(nests, <<L>>)>>
         ELSE <<FALSE, nests>>
    ELSE LET r == PopulateFrom(SubLoops(L), TRUE, nests)
             PerfectSubnest == r[1]
             found == r[2]
         IN  IF /\ PerfectSubnest
                /\ Len(SubLoops(L)) = 1
                /\ ~IsRotatedLoop(L)
                /\ hasSimpleHeaderLatch(L)
                /\ BlocksPerfectlyNestedUnder(L)
             THEN <<TRUE, Append(found, <<L>> \o found[Len(found)])>>
             ELSE <<FALSE, found>>

\* PopulatePerfectLoopNestsUnder(L, PerfectLoopNests): the pair
\* <<return value, PerfectLoopNests afterwards>>.
PopulatePerfectLoopNestsUnder(L, nests) ==
    IF SubLoops(L) = <<>>
    THEN IF ~IsRotatedLoop(L) /\ hasSimpleHeaderLatch(L)
         THEN <<TRUE, Append(nests, <<L>>)>>
         ELSE <<FALSE, nests>>
    ELSE LET r == PopulateFrom(SubLoops(L), TRUE, nests)
             PerfectSubnest == r[1]
             found == r[2]
         IN  IF /\ PerfectSubnest
                /\ Len(SubLoops(L)) = 1
                /\ ~IsRotatedLoop(L)
                /\ hasSimpleHeaderLatch(L)
                /\ BlocksPerfectlyNestedUnder(L)
             THEN <<TRUE, [found EXCEPT ![Len(found)] = <<L>> \o @]>>
             ELSE <<FALSE, found>>

\* "for (i = L->begin(); ...) PerfectSubnest &= Populate...(*i, ...)", and the
\* loop over the top-level loops in runOnFunction (which drops the flag).
PopulateFrom(ls, flag, nests) ==
    IF ls = <<>> THEN <<flag, nests>>
    ELSE LET r == PopulatePerfectLoopNestsUnder(Head(ls), nests)
         IN  PopulateFrom(Tail(ls), flag /\ r[1], r[2])

-----------------------------------------------------------------------------
\* Values, instructions and the symbolic evaluator (ScalarEvolution).

\* A Value is a record [k, l, c]:
\*   "glob"  a global array number c (not an Instruction)
\*   "const" the integer constant c
\*   "phi"   the header phi of loop l (its canonical induction variable when
\*           l has one), an Instruction with operands 0 and phi + 1
\*   "add"   the Instruction phi(l) + c
\*   "sum"   the Instruction phi(l) + phi(c)
\*   "vec"   an index of vector type, which is not SCEVable
Val(k, l, c) == [k |-> k, l |-> l, c |-> c]
Glob(c) == Val("glob", 0, c)
Const(c) == Val("const", 0, c)
Phi(l) == Val("phi", l, 0)
AddC(l, c) == Val("add", l, c)
Sum(l, m) == Val("sum", l, m)
Vec == Val("vec", 0, 0)

\* dyn_cast<Instruction>(Operand) is not null
IsInstruction(v) == v.k \in {"phi", "add", "sum"}

\* isa<PHINode>(I)
IsPHINode(v) == v.k = "phi"

\* I->getOperand(0 .. getNumOperands() - 1)
OperandsOf(v) ==
    CASE v.k = "phi" -> <<Const(0), AddC(v.l, 1)>>
      [] v.k = "add" -> <<Phi(v.l), Const(v.c)>>
      [] v.k = "sum" -> <<Phi(v.l), Phi(v.c)>>
      [] OTHER -> <<>>

RECURSIVE ASTMatchAny(_, _, _)
\* LoopCost::ASTMatch(Operand, P)
ASTMatch(Operand, P) ==
    IF Operand = P THEN TRUE
    ELSE IF ~IsInstruction(Operand) \/ IsPHINode(Operand) THEN FALSE
    ELSE ASTMatchAny(OperandsOf(Operand), 1, P)

\* "for (i = 0; i != e; ++i) if (ASTMatch(I->getOperand(i), P)) return true;"
ASTMatchAny(ops, i, P) ==
    IF i > Len(ops) THEN FALSE
    ELSE IF ASTMatch(ops[i], P) THEN TRUE
    ELSE ASTMatchAny(ops, i + 1, P)

\* Mutant: every type is taken to be SCEVable.
isSCEVableAll(v) == v.k \in {"glob", "const", "phi", "add", "sum", "vec"}

\* SCEV->isSCEVable(V->getType()): integers and pointers are.
isSCEVable(v) == v.k # "vec"

\* SCEV->getSCEV(V): a symbolic part and a constant offset.  phi(l) is the
\* add recurrence {0,+,1} of loop l.
getSCEV(v) ==
    CASE v.k = "const" -> [sym |-> <<0, 0>>, off |-> v.c]
      [] v.k = "phi"   -> [sym |-> <<v.l, 0>>, off |-> 0]
      [] v.k = "add"   -> [sym |-> <<v.l, 0>>, off |-> v.c]
      [] v.k = "sum"   -> [sym |-> IF v.l <= v.c THEN <<v.l, v.c>> ELSE <<v.c, v.l>>,
                           off |-> 0]
      [] OTHER         -> [sym |-> <<0 - 1, v.c>>, off |-> 0]

\* dyn_cast<SCEVConstant>(SCEV->getMinusSCEV(a, b)) is not null
IsConstantDiff(a, b) == a.sym = b.sym

\* DiffSCEV->getValue()->getSExtValue(), when the difference is a constant
DiffValue(a, b) == a.off - b.off

\* L->getCanonicalInductionVariable(), when L has one
CanonicalIV(L) == Phi(L)

\* The loop around l, or l itself at top level.
OuterOf(l) == IF parent[l] = NoLoop THEN l ELSE parent[l]

\* A GEP is the sequence of its operands: the pointer, then the indices.
\* The body block of loop l holds one of the instruction lists below (only
\* the GEPs are listed: the other instructions are skipped by the dyn_cast);
\* o is the loop around l, or l itself at top level.  The globals are the
\* arrays a (1), b (2) and c (3) of the test, and the one-dimensional v (4).

\* c[o][l], a[l][o], c[o][l+1]
Body1(l, o) ==
    << <<Glob(3), Const(0), Phi(o), Phi(l)>>,
       <<Glob(1), Const(0), Phi(l), Phi(o)>>,
       <<Glob(3), Const(0), Phi(o), AddC(l, 1)>> >>

\* a[0][0], c[o][l+LINE_SIZE], c[o][l]
Body2(l, o) ==
    << <<Glob(1), Const(0), Const(0), Const(0)>>,
       <<Glob(3), Const(0), Phi(o), AddC(l, LINE_SIZE)>>,
       <<Glob(3), Const(0), Phi(o), Phi(l)>> >>

\* a[0][l], a[0][o], a GEP of b with a vector index
Body3(l, o) ==
    << <<Glob(1), Const(0), Const(0), Phi(l)>>,
       <<Glob(1), Const(0), Const(0), Phi(o)>>,
       <<Glob(2), Const(0), Vec>> >>

\* v[<vector>], v[l], v[<vector>], v[l+1]
Body4(l, o) ==
    << <<Glob(4), Const(0), Vec>>,
       <<Glob(4), Const(0), Phi(l)>>,
       <<Glob(4), Const(0), Vec>>,
       <<Glob(4), Const(0), AddC(l, 1)>> >>

\* The block for.body6 of the test: c[i][j], a[i][k], b[k][j], c[i][j] with
\* k = l, j = o and i the loop around o.
Body5(l, o) ==
    << <<Glob(3), Const(0), Phi(OuterOf(o)), Phi(o)>>,
       <<Glob(1), Const(0), Phi(OuterOf(o)), Phi(l)>>,
       <<Glob(2), Const(0), Phi(l), Phi(o)>>,
       <<Glob(3), Const(0), Phi(OuterOf(o)), Phi(o)>> >>

\* c[o][l], c[o][l+LINE_SIZE-1], c[o][l+LINE_SIZE], c[o][l+LINE_SIZE+1],
\* c[o][l+2*LINE_SIZE]
Body6(l, o) ==
    << <<Glob(3), Const(0), Phi(o), Phi(l)>>,
       <<Glob(3), Const(0), Phi(o), AddC(l, LINE_SIZE - 1)>>,
       <<Glob(3), Const(0), Phi(o), AddC(l, LINE_SIZE)>>,
       <<Glob(3), Const(0), Phi(o), AddC(l, LINE_SIZE + 1)>>,
       <<Glob(3), Const(0), Phi(o), AddC(l, 2 * LINE_SIZE)>> >>

\* c[o][l+LINE_SIZE-1], c[o][l], c[o][l+2*LINE_SIZE-2]
Body7(l, o) ==
    << <<Glob(3), Const(0), Phi(o), AddC(l, LINE_SIZE - 1)>>,
       <<Glob(3), Const(0), Phi(o), Phi(l)>>,
       <<Glob(3), Const(0), Phi(o), AddC(l, 2 * LINE_SIZE - 2)>> >>

\* c[l][l], a[l+o][l], b[l][o][l], b[l][l][o]: the induction variable of l
\* at more than one index position.
Body8(l, o) ==
    << <<Glob(3), Const(0), Phi(l), Phi(l)>>,
       <<Glob(1), Const(0), Sum(l, o), Phi(l)>>,
       <<Glob(2), Const(0), Phi(l), Phi(o), Phi(l)>>,
       <<Glob(2), Const(0), Phi(l), Phi(l), Phi(o)>> >>

\* The instruction list sel for the body block of loop l.
BodyOf(sel, l, o) ==
    CASE sel = 1 -> Body1(l, o)
      [] sel = 2 -> Body2(l, o)
      [] sel = 3 -> Body3(l, o)
      [] sel = 4 -> Body4(l, o)
      [] sel = 5 -> Body5(l, o)
      [] sel = 6 -> Body6(l, o)
      [] sel = 7 -> Body7(l, o)
      [] OTHER   -> Body8(l, o)

\* The instructions of the function, as the selection bodySel gives them.
InstrsOf == [l \in Loops |-> BodyOf(bodySel[l], l, OuterOf(l))]

\* The GEPs of block bb, in instruction order.
GEPsOfBlock(bb) ==
    IF bb[2] >= 1 /\ bodyKinds[bb[1]][bb[2]] = "work"
    THEN instrs[bb[1]]
    ELSE <<>>

\* A GetElementPtrInst* is <<block owner, block position, instruction number>>.
GEPAt(g) == GEPsOfBlock(<<g[1], g[2]>>)[g[3]]

-----------------------------------------------------------------------------
\* LoopCost: the operations on one instance, as functions of its fields.

\* Mutant: a lookup that yields a value-initialised double for a loop that
\* is not in the map (what LoopCosts[L] would do).
getLoopCostOfDefault(costs, L) == IF L \in DOMAIN costs THEN costs[L] ELSE BigOf(0)

\* LoopCost::getLoopCostOf
getLoopCostOf(costs, L) == IF L \in DOMAIN costs THEN costs[L] ELSE Unknown

RECURSIVE NormalizeNoFallback(_, _, _)
\* Mutant: the normalisation without the test "Still 0? Statically set!".
NormalizeNoFallback(t, i, g) ==
    IF i > Len(t) THEN t
    ELSE IF t[i][2] # 0 THEN NormalizeNoFallback(t, i + 1, g)
    ELSE LET v == IF i = 1 THEN (IF Len(t) >= 2 THEN t[2][2] ELSE g)
                  ELSE IF i = Len(t) THEN t[i - 1][2]
                  ELSE (t[i - 1][2] + t[i + 1][2]) \div 2
         IN  NormalizeNoFallback([t EXCEPT ![i] = <<t[i][1], v>>], i + 1, g)

RECURSIVE Normalize(_, _, _)
\* The second loop of setTripCounts, at position i of the table, in place.
\* g is what the read of (*next).second yields when next == end(), which
\* happens when the first entry is also the last: a read past the elements
\* of the vector.
Normalize(t, i, g) ==
    IF i > Len(t) THEN t
    ELSE IF t[i][2] # 0 THEN Normalize(t, i + 1, g)
    ELSE LET v == IF i = 1 THEN (IF Len(t) >= 2 THEN t[2][2] ELSE g)
                  ELSE IF i = Len(t) THEN t[i - 1][2]
                  ELSE (t[i - 1][2] + t[i + 1][2]) \div 2
             w == IF v = 0 THEN STATIC_TRIP_COUNT ELSE v
         IN  Normalize([t EXCEPT ![i] = <<t[i][1], w>>], i + 1, g)

\* LoopCost::setTripCounts(LN) on the table t
setTripCounts(t, LN, g) ==
    Normalize(t \o [i \in 1..Len(LN) |-> <<LN[i], tripOf[LN[i]]>>], 1, g)

\* Whether setTripCounts(LN) on the table t reads past the vector's elements.
ReadsPastEnd(t, LN) == Len(t) = 0 /\ Len(LN) = 1 /\ tripOf[LN[1]] = 0

RECURSIVE MatchGroupLE(_, _, _)
\* Mutant: "<=" in place of "<" in the comparison with the line size.
MatchGroupLE(groups, j, GEP) ==
    IF j > Len(groups) THEN "none"
    ELSE LET RG == GEPAt(groups[j])
             NumOps == Len(GEP)
             RGNumOps == Len(RG)
         IN  IF RGNumOps # NumOps THEN MatchGroupLE(groups, j + 1, GEP)
             ELSE IF \E i \in 1..(NumOps - 1) : GEP[i] # RG[i]
                  THEN MatchGroupLE(groups, j + 1, GEP)
             ELSE IF ~isSCEVable(RG[RGNumOps]) THEN MatchGroupLE(groups, j + 1, GEP)
             ELSE LET GEPSCEV == getSCEV(GEP[NumOps])
                      RGSCEV == getSCEV(RG[RGNumOps])
                  IN  IF IsConstantDiff(GEPSCEV, RGSCEV)
                      THEN IF DiffValue(GEPSCEV, RGSCEV) <= LineSize
                           THEN "join"
                           ELSE MatchGroupLE(groups, j + 1, GEP)
                      ELSE IF nullDeref = "split"
                           THEN MatchGroupLE(groups, j + 1, GEP)
                           ELSE nullDeref

RECURSIVE MatchGroup(_, _, _)
\* The loop "for (auto RG : ReferenceGroups)" for the instruction GEP, from
\* group j on: "join" (UniqueGEP = false), "none" (the loop ran out) or
\* "crash".  A difference that is no SCEVConstant makes DiffSCEV null, and
\* DiffSCEV->getValue() is then undefined: the build decides (nullDeref).
MatchGroup(groups, j, GEP) ==
    IF j > Len(groups) THEN "none"
    ELSE LET RG == GEPAt(groups[j])
             NumOps == Len(GEP)
             RGNumOps == Len(RG)
         IN  IF RGNumOps # NumOps THEN MatchGroup(groups, j + 1, GEP)
             ELSE IF \E i \in 1..(NumOps - 1) : GEP[i] # RG[i]
                  THEN MatchGroup(groups, j + 1, GEP)
             ELSE IF ~isSCEVable(RG[RGNumOps]) THEN MatchGroup(groups, j + 1, GEP)
             ELSE LET GEPSCEV == getSCEV(GEP[NumOps])
                      RGSCEV == getSCEV(RG[RGNumOps])
                  IN  IF IsConstantDiff(GEPSCEV, RGSCEV)
                      THEN IF DiffValue(GEPSCEV, RGSCEV) < LineSize
                           THEN "join"
                           ELSE MatchGroup(groups, j + 1, GEP)
                      ELSE IF nullDeref = "split"
                           THEN MatchGroup(groups, j + 1, GEP)
                           ELSE nullDeref

RECURSIVE CreateFrom(_, _, _)
\* The loop "for (auto &i : *bb)" of CreateReferenceGroups from instruction
\* k on: <<ReferenceGroups afterwards, crashed>>.
CreateFrom(groups, bb, k) ==
    IF k > Len(GEPsOfBlock(bb)) THEN <<groups, FALSE>>
    ELSE LET GEP == GEPsOfBlock(bb)[k]
             m == IF isSCEVable(GEP[Len(GEP)])
                  THEN MatchGroup(groups, 1, GEP)
                  ELSE "none"
         IN  IF m = "crash" THEN <<groups, TRUE>>
             ELSE IF m = "none"
                  THEN CreateFrom(Append(groups, <<bb[1], bb[2], k>>), bb, k + 1)
                  ELSE CreateFrom(groups, bb, k + 1)

\* LoopCost::CreateReferenceGroups(bb)
CreateReferenceGroups(groups, bb) == CreateFrom(groups, bb, 1)

RECURSIVE PenaltiesFrom(_, _, _, _, _)
\* "for (auto ltc : LoopTripCounts)": <<ThisLoopPenalty, OtherLoopPenalties>>
PenaltiesFrom(t, i, L, this, other) ==
    IF i > Len(t) THEN <<this, other>>
    ELSE IF t[i][1] = L
         THEN PenaltiesFrom(t, i + 1, L, t[i][2], other)
         ELSE PenaltiesFrom(t, i + 1, L, this, BigMulSmall(other, t[i][2]))

\* Mutant: the trip counts of the other loops are left out.
LoopPenaltiesNoOther(t, L) == <<PenaltiesFrom(t, 1, L, 1, BigOf(1))[1], BigOf(1)>>

LoopPenalties(t, L) == PenaltiesFrom(t, 1, L, 1, BigOf(1))

RECURSIVE RefPenaltyTrunc(_, _, _, _, _)
\* Mutant: the division by the line size done on integers.
RefPenaltyTrunc(GEP, ni, P, this, pen) ==
    LET ne == Len(GEP) - 1
    IN  IF ni > ne THEN pen
        ELSE IF ASTMatch(GEP[ni + 1], P)
             THEN IF \/ (AccessOrder = "ROWMAJOR" /\ ni = ne)
                     \/ (AccessOrder = "COLUMNMAJOR" /\ ni = 2)
                  THEN RefPenaltyTrunc(GEP, ni + 1, P, this,
                                       (this \div LineSize) * LINE_SIZE)
                  ELSE RefPenaltyTrunc(GEP, ni + 1, P, this, this * LINE_SIZE)
             ELSE RefPenaltyTrunc(GEP, ni + 1, P, this, pen)

RECURSIVE RefPenaltySwapped(_, _, _, _, _)
\* Mutant: the two branches of the stride test exchanged.
RefPenaltySwapped(GEP, ni, P, this, pen) ==
    LET ne == Len(GEP) - 1
    IN  IF ni > ne THEN pen
        ELSE IF ASTMatch(GEP[ni + 1], P)
             THEN IF \/ (AccessOrder = "ROWMAJOR" /\ ni = ne)
                     \/ (AccessOrder = "COLUMNMAJOR" /\ ni = 2)
                  THEN RefPenaltySwapped(GEP, ni + 1, P, this, this * LINE_SIZE)
                  ELSE RefPenaltySwapped(GEP, ni + 1, P, this,
                                         (this * LINE_SIZE) \div LineSize)
             ELSE RefPenaltySwapped(GEP, ni + 1, P, this, pen)

RECURSIVE RefPenaltyRowOnly(_, _, _, _, _, _)
\* Mutant: the access order is not consulted, the last index is the
\* contiguous one.
RefPenaltyRowOnly(order, GEP, ni, P, this, pen) ==
    LET ne == Len(GEP) - 1
    IN  IF ni > ne THEN pen
        ELSE IF ASTMatch(GEP[ni + 1], P)
             THEN IF ni = ne
                  THEN RefPenaltyRowOnly(order, GEP, ni + 1, P, this,
                                         (this * LINE_SIZE) \div LineSize)
                  ELSE RefPenaltyRowOnly(order, GEP, ni + 1, P, this, this * LINE_SIZE)
             ELSE RefPenaltyRowOnly(order, GEP, ni + 1, P, this, pen)

RECURSIVE RefPenaltyFirst(_, _, _, _, _, _)
\* Mutant: the loop over the indices ends at the first index that matches.
RefPenaltyFirst(order, GEP, ni, P, this, pen) ==
    LET ne == Len(GEP) - 1
    IN  IF ni > ne THEN pen
        ELSE IF ASTMatch(GEP[ni + 1], P)
             THEN IF \/ (order = "ROWMAJOR" /\ ni = ne)
                     \/ (order = "COLUMNMAJOR" /\ ni = 2)
                  THEN (this * LINE_SIZE) \div LineSize
                  ELSE this * LINE_SIZE
             ELSE RefPenaltyFirst(order, GEP, ni + 1, P, this, pen)

RECURSIVE RefPenaltyIn(_, _, _, _, _, _)
\* "for (ni = 1; ni <= ne; ni++)": ThisRefPenalty in units of 1/LINE_SIZE,
\* for the value order of the member AccessOrder.  getOperand(ni) is
\* position ni + 1 of the operand sequence.
RefPenaltyIn(order, GEP, ni, P, this, pen) ==
    LET ne == Len(GEP) - 1
    IN  IF ni > ne THEN pen
        ELSE IF ASTMatch(GEP[ni + 1], P)
             THEN IF \/ (order = "ROWMAJOR" /\ ni = ne)
                     \/ (order = "COLUMNMAJOR" /\ ni = 2)
                  THEN RefPenaltyIn(order, GEP, ni + 1, P, this,
                                    (this * LINE_SIZE) \div LineSize)
                  ELSE RefPenaltyIn(order, GEP, ni + 1, P, this, this * LINE_SIZE)
             ELSE RefPenaltyIn(order, GEP, ni + 1, P, this, pen)

\* The loop over the indices of a GEP in calculateLoopCosts, from index ni.
RefPenaltyFrom(GEP, ni, P, this, pen) == RefPenaltyIn(AccessOrder, GEP, ni, P, this, pen)

ThisRefPenalty(GEP, P, this) == RefPenaltyFrom(GEP, 1, P, this, LINE_SIZE)

RECURSIVE CostFrom(_, _, _, _, _)
\* "for (auto GEP : ReferenceGroups)": ThisLoopCost
CostFrom(groups, j, P, pens, cost) ==
    IF j > Len(groups) THEN cost
    ELSE CostFrom(groups, j + 1, P, pens,
                  BigAdd(cost, BigMulSmall(pens[2],
                                           ThisRefPenalty(GEPAt(groups[j]), P, pens[1]))))

\* The cost recorded for a loop L that has an induction variable.
ThisLoopCost(t, groups, L) ==
    CostFrom(groups, 1, CanonicalIV(L), LoopPenalties(t, L), BigOf(0))

RECURSIVE CostLoopsFrom(_, _, _, _, _, _)
\* Mutant: "break" in place of "continue" at a loop without induction
\* variable.
CostLoopsBreak(costs, LN, i, t, groups, iv) ==
    IF i > Len(LN) THEN costs
    ELSE LET L == LN[i]
         IN  IF L \notin iv
             THEN costs
             ELSE CostLoopsFrom([l \in DOMAIN costs \cup {L} |->
                                    IF l = L THEN ThisLoopCost(t, groups, L)
                                    ELSE costs[l]],
                                LN, i + 1, t, groups, iv)

\* "for (auto L : LN)" of calculateLoopCosts from position i on: the map
\* LoopCosts afterwards.  iv is the set of loops for which
\* getCanonicalInductionVariable() is not null; the others are skipped.
CostLoopsFrom(costs, LN, i, t, groups, iv) ==
    IF i > Len(LN) THEN costs
    ELSE LET L == LN[i]
         IN  IF L \notin iv
             THEN CostLoopsFrom(costs, LN, i + 1, t, groups, iv)
             ELSE CostLoopsFrom([l \in DOMAIN costs \cup {L} |->
                                    IF l = L THEN ThisLoopCost(t, groups, L)
                                    ELSE costs[l]],
                                LN, i + 1, t, groups, iv)

CostLoops(costs, LN, t, groups, iv) == CostLoopsFrom(costs, LN, 1, t, groups, iv)

\* Mutant: initialise with insert(), which keeps an entry that exists.
InitCostsKeep(costs, LN) ==
    LET inLN == {LN[i] : i \in 1..Len(LN)}
    IN  [l \in DOMAIN costs \cup inLN |-> IF l \in DOMAIN costs THEN costs[l] ELSE Unknown]

\* Mutant: every entry of the map is set to -1.0, not only the nest's.
InitCostsAll(costs, LN) ==
    LET inLN == {LN[i] : i \in 1..Len(LN)}
    IN  [l \in DOMAIN costs \cup inLN |-> Unknown]

\* "for (auto L : LN) LoopCosts[L] = -1.0;"
InitCosts(costs, LN) ==
    LET inLN == {LN[i] : i \in 1..Len(LN)}
    IN  [l \in DOMAIN costs \cup inLN |-> IF l \in inLN THEN Unknown ELSE costs[l]]

\* LoopCost::calculateLoopCosts(LN) on the instance inst = [trip, groups,
\* costs]: the instance afterwards, with the path the call took.
calculateLoopCosts(inst, LN, g) ==
    LET c0 == InitCosts(inst.costs, LN)
        innermostBB == getInnerSingleBB(LN[Len(LN)])
        rg == CreateReferenceGroups(inst.groups, innermostBB)
        t == setTripCounts(inst.trip, LN, g)
    IN  IF ~IsPerfectNest(LN)
        THEN [trip |-> inst.trip, groups |-> inst.groups, costs |-> c0,
              path |-> "notperfect"]
        ELSE IF innermostBB = NoBlock
        THEN [trip |-> inst.trip, groups |-> inst.groups, costs |-> c0,
              path |-> "nobb"]
        ELSE IF rg[2]
        THEN [trip |-> inst.trip, groups |-> rg[1], costs |-> c0,
              path |-> "crash"]
        ELSE [trip |-> t, groups |-> rg[1],
              costs |-> CostLoops(c0, LN, t, rg[1], hasIV),
              path |-> "costed"]

\* LoopCost::LoopCost(SCEV): the fields of a new instance.
NewLoopCost == [trip |-> <<>>, groups |-> <<>>, costs |-> <<>>, path |-> "new"]

-----------------------------------------------------------------------------
\* LoopCostAnalysis::runOnFunction

\* "for (L = LI->begin(); ...) PopulatePerfectLoopNestsUnder(*L, ...)"
PerfectLoopNests == PopulateFrom(TopLevelLoops, TRUE, <<>>)[2]

RECURSIVE CostNests(_, _, _, _)
\* "for (auto PN : PerfectLoopNests) LC->calculateLoopCosts(PN);" from nest
\* i on.  A crash ends the process, and with it the loop.
CostNests(inst, nests, i, g) ==
    IF i > Len(nests) \/ inst.path = "crash" THEN inst
    ELSE CostNests(calculateLoopCosts(inst, nests[i], g), nests, i + 1, g)

\* The instance LC points to when runOnFunction returns.
runOnFunction(g) == CostNests(NewLoopCost, PerfectLoopNests, 1, g)

-----------------------------------------------------------------------------
\* The state machine.

\* What an uninitialised unsigned may hold.
GarbageVals == {0, 7}

\* The loop nests a caller may pass: non-empty, each entry the parent of the
\* next (the LoopNest invariant).
Chains ==
    {s \in UNION {[1..n -> Loops] : n \in 1..NumLoops} :
        \A i \in 1..(Len(s) - 1) : parent[s[i + 1]] = s[i]}

Instance == [trip |-> LoopTripCounts, groups |-> ReferenceGroups, costs |-> LoopCosts,
             path |-> last.path]

Forests == {p \in [Loops -> 0..NumLoops] : \A l \in Loops : p[l] < l}

\* The own blocks a loop may have besides header and latch: only an empty
\* one, one with instructions, or two with instructions.
BodyKindSet == {<<"stub">>, <<"work">>, <<"work", "work">>}

\* The usual shape: an innermost loop has one body block, an outer loop only
\* the empty blocks that lead into and out of its sub-loop.
UsualBody(p) ==
    [l \in Loops |-> IF \E c \in Loops : p[c] = l THEN <<"stub">> ELSE <<"work">>]

\* No ASTMatch call is followed step by step: the cost pass makes its calls
\* on the index expressions of the body blocks (ASTMatch above).
NoMatchCall ==
    /\ graph = [nodes |-> <<>>, Operand |-> 0, P |-> 0]
    /\ match = [frames |-> <<>>, ret |-> "none"]

InitInstance ==
    /\ LineSize = LINE_SIZE
    /\ AccessOrder = "ROWMAJOR"
    /\ LoopTripCounts = <<>>
    /\ ReferenceGroups = <<>>
    /\ LoopCosts = <<>>
    /\ last = [op |-> "construct", calls |-> <<>>, path |-> "new",
               before |-> NewLoopCost]
    /\ pass = <<>>

\* Calls on one instance: every forest, trip counts available or not, at
\* most one loop without induction variable, the usual blocks.
Init ==
    /\ parent \in Forests
    /\ rotated = {}
    /\ bodyKinds = UsualBody(parent)
    /\ hasIV \in {Loops \ s : s \in {{}} \cup {{l} : l \in Loops}}
    /\ tripOf \in [Loops -> {0, 3}]
    /\ bodySel = [l \in Loops |-> 1]
    /\ nullDeref = "crash"
    /\ instrs = InstrsOf
    /\ headerWork = {}
    /\ NoMatchCall
    /\ InitInstance

\* Calls on one instance where every trip count is available: every forest,
\* at most one loop without induction variable, the usual blocks.
InitIV ==
    /\ parent \in Forests
    /\ rotated = {}
    /\ bodyKinds = UsualBody(parent)
    /\ hasIV \in {Loops \ s : s \in {{}} \cup {{l} : l \in Loops}}
    /\ tripOf = [l \in Loops |-> 3]
    /\ bodySel = [l \in Loops |-> 1]
    /\ nullDeref = "crash"
    /\ instrs = InstrsOf
    /\ headerWork = {}
    /\ NoMatchCall
    /\ InitInstance

\* The forests that are a row of nests, each a chain: a loop is at top level
\* or directly inside the loop before it.
NestForests == {p \in Forests : \A l \in Loops : p[l] \in {NoLoop, l - 1}}

\* Calls on one instance where the trip-count evaluator fails for any subset
\* of the loops: every row of nests, every loop with induction variable.
InitTrip ==
    /\ parent \in NestForests
    /\ rotated = {}
    /\ bodyKinds = UsualBody(parent)
    /\ hasIV = Loops
    /\ tripOf \in [Loops -> {0, 3}]
    /\ bodySel = [l \in Loops |-> 1]
    /\ nullDeref = "crash"
    /\ instrs = InstrsOf
    /\ headerWork = {}
    /\ NoMatchCall
    /\ InitInstance

\* The instruction lists of BodyOf the grouping is run on.
BodySels == 1..7

\* What a build may do when DiffSCEV is null and is dereferenced: end the
\* process, or read a value that passes or fails the comparison.
NullDerefOutcomes == {"crash", "join", "split"}

\* The pass on every forest with each instruction list in the body blocks,
\* under each outcome of the null dereference.
InitRefs ==
    /\ parent \in Forests
    /\ rotated = {}
    /\ bodyKinds = UsualBody(parent)
    /\ hasIV = Loops
    /\ tripOf = [l \in Loops |-> 3]
    /\ bodySel \in {[l \in Loops |-> b] : b \in BodySels}
    /\ nullDeref \in NullDerefOutcomes
    /\ instrs = InstrsOf
    /\ headerWork = {}
    /\ NoMatchCall
    /\ InitInstance

\* Calls on one instance under either access order: every forest, the trip
\* counts of the test, the body blocks holding instruction list 1, 4 or 5.
InitOrder ==
    /\ parent \in Forests
    /\ rotated = {}
    /\ bodyKinds = UsualBody(parent)
    /\ hasIV = Loops
    /\ tripOf = [l \in Loops |-> TestTripCount]
    /\ bodySel \in {[l \in Loops |-> b] : b \in {1, 4, 5}}
    /\ nullDeref = "crash"
    /\ instrs = InstrsOf
    /\ headerWork = {}
    /\ NoMatchCall
    /\ InitInstance

\* The blocks tried for a row of nests: an innermost loop has an empty body
\* block, one with instructions, or two with instructions; an outer loop
\* has the empty block that leads into its sub-loop.
LeafBodies(p) ==
    {b \in [Loops -> BodyKindSet] :
        \A l \in Loops : (\E c \in Loops : p[c] = l) => b[l] = <<"stub">>}

\* Calls on one instance for every row of nests and each kind of innermost
\* body.
InitBlocks ==
    /\ parent \in NestForests
    /\ rotated = {}
    /\ bodyKinds \in LeafBodies(parent)
    /\ hasIV = Loops
    /\ tripOf = [l \in Loops |-> 3]
    /\ bodySel = [l \in Loops |-> 1]
    /\ nullDeref = "crash"
    /\ instrs = InstrsOf
    /\ headerWork = {}
    /\ NoMatchCall
    /\ InitInstance

\* The pass on every forest with the usual blocks, where any set of loops
\* has a header or latch that does more than control the loop.
InitHeader ==
    /\ parent \in Forests
    /\ rotated = {}
    /\ bodyKinds = UsualBody(parent)
    /\ hasIV = Loops
    /\ tripOf = [l \in Loops |-> 3]
    /\ bodySel = [l \in Loops |-> 1]
    /\ nullDeref = "crash"
    /\ instrs = InstrsOf
    /\ headerWork \in SUBSET Loops
    /\ NoMatchCall
    /\ InitInstance

\* Calls on one instance under either access order, the body blocks holding
\* references that use one induction variable at several index positions.
InitMulti ==
    /\ parent \in Forests
    /\ rotated = {}
    /\ bodyKinds = UsualBody(parent)
    /\ hasIV = Loops
    /\ tripOf = [l \in Loops |-> 3]
    /\ bodySel = [l \in Loops |-> 8]
    /\ nullDeref = "crash"
    /\ instrs = InstrsOf
    /\ headerWork = {}
    /\ NoMatchCall
    /\ InitInstance

\* ---- one ASTMatch call, followed step by step on an operand graph ----

Nodes == 1..NumNodes

\* The operand lists of an instruction: one operand, or two different ones
\* in either order.
OperandLists ==
    {<<a>> : a \in Nodes} \cup ({<<a, b>> : a, b \in Nodes} \ {<<a, a>> : a \in Nodes})

\* A value is a phi node, an instruction that is no phi node, with its
\* operands, or a value that is no instruction (an argument, a constant).
Shapes ==
    {[k |-> "phi", o |-> <<>>], [k |-> "arg", o |-> <<>>]}
        \cup {[k |-> "inst", o |-> l] : l \in OperandLists}

KindOf(n) == graph.nodes[n].k

\* I->getOperand(0 .. getNumOperands() - 1).  The incoming values of a phi
\* node are all the instructions: every use of a phi node by an instruction
\* closes a cycle through the phi node.
OpsOf(n) ==
    IF KindOf(n) = "phi" THEN SortedSeq({m \in Nodes : KindOf(m) = "inst"})
    ELSE graph.nodes[n].o

\* The recursion is followed to this depth; a call on a graph whose cycles
\* all pass through a phi node stays below it.
MaxDepth == NumNodes + 2

\* ASTMatch(Operand, P) is called on every graph in which value 1 is the
\* phi node P, with every value as Operand.  A frame is the value a call
\* was made with and its position: 0 before the tests of lines 482-487,
\* i >= 1 at operand i of the loop.
InitMatch ==
    /\ parent = [l \in Loops |-> NoLoop]
    /\ rotated = {}
    /\ bodyKinds = UsualBody(parent)
    /\ hasIV = Loops
    /\ tripOf = [l \in Loops |-> 3]
    /\ bodySel = [l \in Loops |-> 1]
    /\ nullDeref = "crash"
    /\ instrs = InstrsOf
    /\ headerWork = {}
    /\ graph \in {[nodes |-> sh, Operand |-> x, P |-> 1] :
                    sh \in {f \in [Nodes -> Shapes] : f[1].k = "phi"}, x \in Nodes}
    /\ match = [frames |-> <<[n |-> graph.Operand, i |-> 0]>>, ret |-> "none"]
    /\ InitInstance

MatchTop == match.frames[Len(match.frames)]

MatchPop == SubSeq(match.frames, 1, Len(match.frames) - 1)

\* Mutant: a phi node other than P is searched like any instruction.
ASTMatchEnterThroughPhi ==
    /\ match.frames # <<>>
    /\ match.ret = "none"
    /\ MatchTop.i = 0
    /\ match' = IF MatchTop.n = graph.P
                 THEN [frames |-> MatchPop, ret |-> "true"]
                 ELSE IF KindOf(MatchTop.n) = "arg"
                 THEN [frames |-> MatchPop, ret |-> "false"]
                 ELSE [match EXCEPT !.frames[Len(match.frames)].i = 1]
    /\ UNCHANGED <<inputVars, instVars, last, pass>>

\* "if (Operand == P) return true;" and "if (!I || isa<PHINode>(I)) return
\* false;", else on to the loop over the operands.
ASTMatchEnter ==
    /\ match.frames # <<>>
    /\ match.ret = "none"
    /\ MatchTop.i = 0
    /\ match' = IF MatchTop.n = graph.P
                 THEN [frames |-> MatchPop, ret |-> "true"]
                 ELSE IF KindOf(MatchTop.n) # "inst"
                 THEN [frames |-> MatchPop, ret |-> "false"]
                 ELSE [match EXCEPT !.frames[Len(match.frames)].i = 1]
    /\ UNCHANGED <<inputVars, instVars, last, pass>>

\* "for (i = 0; i != e; ++i) ... ASTMatch(I->getOperand(i), P)": the call for
\* the next operand, or "return false" after the last one.
ASTMatchLoop ==
    /\ match.frames # <<>>
    /\ match.ret = "none"
    /\ MatchTop.i >= 1
    /\ IF MatchTop.i > Len(OpsOf(MatchTop.n))
       THEN match' = [frames |-> MatchPop, ret |-> "false"]
       ELSE /\ Len(match.frames) < MaxDepth
            /\ match' = [match EXCEPT
                            !.frames = Append(@, [n |-> OpsOf(MatchTop.n)[MatchTop.i],
                                                  i |-> 0])]
    /\ UNCHANGED <<inputVars, instVars, last, pass>>

\* "if (ASTMatch(...)) return true;" in the caller: return true, or go on
\* with the next operand.
ASTMatchReturn ==
    /\ match.frames # <<>>
    /\ match.ret # "none"
    /\ match' = IF match.ret = "true"
                 THEN [frames |-> MatchPop, ret |-> "true"]
                 ELSE [frames |-> [match.frames EXCEPT ![Len(match.frames)].i = @ + 1],
                       ret |-> "none"]
    /\ UNCHANGED <<inputVars, instVars, last, pass>>

NextMatch == ASTMatchEnter \/ ASTMatchLoop \/ ASTMatchReturn

\* The rotation patterns tried: no loop, one loop, every loop.
RotatedSets == {{}, Loops} \cup {{l} : l \in Loops}

\* The pass on every forest, with every kind of block, under each rotation
\* pattern.
InitForest ==
    /\ parent \in Forests
    /\ rotated \in RotatedSets
    /\ bodyKinds \in [Loops -> BodyKindSet]
    /\ hasIV = Loops
    /\ tripOf = [l \in Loops |-> 3]
    /\ bodySel = [l \in Loops |-> 1]
    /\ nullDeref = "crash"
    /\ instrs = InstrsOf
    /\ headerWork = {}
    /\ NoMatchCall
    /\ InitInstance

\* Mutant: a constructor that leaves the cache data value-initialised.
ConstructNoCache ==
    /\ last.path # "crash"
    /\ last.op = "calc"
    /\ LineSize' = 0
    /\ AccessOrder' = "ROWMAJOR"
    /\ LoopTripCounts' = NewLoopCost.trip
    /\ ReferenceGroups' = NewLoopCost.groups
    /\ LoopCosts' = NewLoopCost.costs
    /\ last' = [op |-> "construct", calls |-> <<>>, path |-> "new",
                before |-> NewLoopCost]
    /\ UNCHANGED <<inputVars, match, pass>>

\* new LoopCost(SCEV) by a client of the utility class, for another series
\* of calls.
Construct ==
    /\ last.path # "crash"
    /\ last.op = "calc"
    /\ LineSize' = LINE_SIZE
    /\ AccessOrder' = "ROWMAJOR"
    /\ LoopTripCounts' = NewLoopCost.trip
    /\ ReferenceGroups' = NewLoopCost.groups
    /\ LoopCosts' = NewLoopCost.costs
    /\ last' = [op |-> "construct", calls |-> <<>>, path |-> "new",
                before |-> NewLoopCost]
    /\ UNCHANGED <<inputVars, match, pass>>

\* LC.calculateLoopCosts(LN) by a client, on the instance it constructed.
CalculateLoopCosts(LN, g) ==
    /\ last.op \in {"construct", "calc"}
    /\ last.path # "crash"
    /\ Len(last.calls) < MaxCalls
    /\ g \in (IF ReadsPastEnd(LoopTripCounts, LN) THEN GarbageVals ELSE {0})
    /\ LET r == calculateLoopCosts(Instance, LN, g)
       IN  /\ LoopTripCounts' = r.trip
           /\ ReferenceGroups' = r.groups
           /\ LoopCosts' = r.costs
           /\ last' = [op |-> "calc", calls |-> Append(last.calls, LN),
                       path |-> r.path, before |-> Instance]
    /\ UNCHANGED <<inputVars, LineSize, AccessOrder, match, pass>>

\* The pass runs on the function: LC = new LoopCost(SCEV), then the nests.
\* pass keeps what the last two runs left in LC.  The model holds one
\* instance at a time: the pass runs while no client is using one.
RunOnFunction(g) ==
    /\ last.path # "crash"
    /\ last.op \in {"construct", "run"}
    /\ last.calls = <<>>
    /\ g \in (IF \E i \in 1..Len(PerfectLoopNests) :
                     ReadsPastEnd(<<>>, PerfectLoopNests[i])
              THEN GarbageVals ELSE {0})
    /\ LET r == runOnFunction(g)
           done == IF r.path = "crash" THEN pass
                   ELSE IF pass = <<>> THEN <<r>> ELSE <<pass[Len(pass)], r>>
       IN  /\ LineSize' = LINE_SIZE
           /\ AccessOrder' = "ROWMAJOR"
           /\ LoopTripCounts' = r.trip
           /\ ReferenceGroups' = r.groups
           /\ LoopCosts' = r.costs
           /\ last' = [op |-> "run", calls |-> <<>>,
                       path |-> IF r.path = "crash" THEN "crash" ELSE "done",
                       before |-> NewLoopCost]
           /\ pass' = done
    /\ UNCHANGED <<inputVars, match>>

\* enum Order
Orders == {"COLUMNMAJOR", "ROWMAJOR"}

\* A client assigns the public member AccessOrder of the instance it has
\* constructed, before it passes a nest to it.
SetAccessOrder(o) ==
    /\ last.op = "construct"
    /\ AccessOrder # o
    /\ AccessOrder' = o
    /\ UNCHANGED <<inputVars, LineSize, LoopTripCounts, ReferenceGroups, LoopCosts,
                   match, last, pass>>

Next ==
    \/ Construct
    \/ \E LN \in Chains : \E g \in GarbageVals : CalculateLoopCosts(LN, g)
    \/ \E g \in GarbageVals : RunOnFunction(g)

NextForest == \E g \in GarbageVals : RunOnFunction(g)

NextOrder ==
    \/ Construct
    \/ \E LN \in Chains : \E g \in GarbageVals : CalculateLoopCosts(LN, g)
    \/ \E o \in Orders : SetAccessOrder(o)

\* A client that constructs instances and passes nests to them.
NextCalls ==
    \/ Construct
    \/ \E LN \in Chains : \E g \in GarbageVals : CalculateLoopCosts(LN, g)

Spec == Init /\ [][Next]_vars

SpecIV == InitIV /\ [][Next]_vars

SpecTrip == InitTrip /\ [][Next]_vars

SpecRefs == InitRefs /\ [][NextForest]_vars

SpecOrder == InitOrder /\ [][NextOrder]_vars

SpecForest == InitForest /\ [][NextForest]_vars

SpecBlocks == InitBlocks /\ [][NextCalls]_vars

SpecHeader == InitHeader /\ [][NextForest]_vars

SpecMulti == InitMulti /\ [][NextOrder]_vars

\* A call that has been made runs on: the steps of one call are not
\* suspended for ever.
SpecMatch == InitMatch /\ [][NextMatch]_vars /\ WF_vars(NextMatch)

-----------------------------------------------------------------------------
\* Properties.

RangeOf(q) == {q[i] : i \in 1..Len(q)}

\* The nest passed by the last calculateLoopCosts call of a client.
LastLN == last.calls[Len(last.calls)]

Called == last.op = "calc"

\* The last call went through setTripCounts and the cost pass and returned.
Costed == Called /\ last.path = "costed"

\* The entries the last call's setTripCounts appended to the table.
NewEntries == SubSeq(LoopTripCounts, Len(last.before.trip) + 1, Len(LoopTripCounts))

RECURSIVE ProductExcept(_, _, _)
\* The product of the counts of entries e[j..] other than entry i.
ProductExcept(e, i, j) ==
    IF j > Len(e) THEN BigOf(1)
    ELSE IF j = i THEN ProductExcept(e, i, j + 1)
    ELSE BigMulSmall(ProductExcept(e, i, j + 1), e[j][2])

\* C1: for two disjoint perfect nests A and B, calculateLoopCosts(B) on an
\* instance that has processed A records for B's loops the costs that
\* calculateLoopCosts(B) records on a new instance (B being a nest on which a
\* new instance has defined behaviour).
C1_NoCarryOver ==
    (/\ Costed
     /\ Len(last.calls) = 2
     /\ last.before.path = "costed"
     /\ RangeOf(last.calls[1]) \cap RangeOf(last.calls[2]) = {}
     /\ ~ReadsPastEnd(<<>>, LastLN))
    => \A L \in RangeOf(LastLN) :
          LoopCosts[L] = calculateLoopCosts(NewLoopCost, LastLN, 0).costs[L]

\* C2: for every loop L costed by a call, ThisLoopPenalty is the trip count
\* this call estimated for L and OtherLoopPenalties is the product of the
\* trip counts this call estimated for the other loops of the nest.
C2_PenaltiesOfNest ==
    Costed =>
        \A i \in 1..Len(LastLN) :
            LastLN[i] \in hasIV =>
                LoopPenalties(LoopTripCounts, LastLN[i])
                    = <<NewEntries[i][2], ProductExcept(NewEntries, i, 1)>>

\* C3: after setTripCounts(LN) the trip-count table holds exactly one entry
\* per loop of LN, in nest order, and no entry of another loop.
C3_TableIsNest ==
    Costed => [i \in 1..Len(LoopTripCounts) |-> LoopTripCounts[i][1]] = LastLN

\* C4: during the cost pass every reference group's representative is an
\* instruction of the innermost body block of the nest being costed.
C4_GroupsOfThisNest ==
    Costed =>
        \A j \in 1..Len(ReferenceGroups) :
            <<ReferenceGroups[j][1], ReferenceGroups[j][2]>>
                = getInnerSingleBB(LastLN[Len(LastLN)])

\* Membership in some perfect nest, by the definition of perfection alone.
InSomePerfectNest(L) == \E LN \in Chains : IsPerfectNest(LN) /\ L \in RangeOf(LN)

PassDone == last.op = "run" /\ last.path = "done"

\* C5: after the pass has run, getLoopCostOf(L) is -1.0 for every loop L that
\* is in no perfect nest, entered in the map or not.
C5_OutsideNestsUnknown ==
    PassDone =>
        \A L \in Loops : ~InSomePerfectNest(L) => getLoopCostOf(LoopCosts, L) = Unknown

\* The pass has run on a function with a loop in no perfect nest that never
\* entered the map, next to a loop that got a computed cost.
C5_Witness ==
    /\ PassDone
    /\ \E L \in Loops : ~InSomePerfectNest(L) /\ L \notin DOMAIN LoopCosts
    /\ \E L \in DOMAIN LoopCosts : LoopCosts[L] # Unknown

\* C6: a call with a nest that fails IsPerfectNest ends with cost -1.0 for
\* every loop of the nest, whatever cost it had before.
C6_NotPerfectAllUnknown ==
    (Called /\ ~IsPerfectNest(LastLN)) =>
        /\ last.path = "notperfect"
        /\ \A L \in RangeOf(LastLN) : getLoopCostOf(LoopCosts, L) = Unknown

\* A non-perfect nest was passed that holds a loop with a computed cost.
C6_Witness ==
    /\ Called
    /\ ~IsPerfectNest(LastLN)
    /\ \E L \in RangeOf(LastLN) :
          L \in DOMAIN last.before.costs /\ last.before.costs[L] # Unknown

\* C7: in a call that reaches the cost pass, a loop without canonical
\* induction variable ends at -1.0, and every loop of the nest that has one
\* ends with a computed cost, the cost the call would record for it if the
\* first loop had an induction variable too.
C7_MissingIVIsLocal ==
    Costed =>
        \A L \in RangeOf(LastLN) \ hasIV :
            /\ LoopCosts[L] = Unknown
            /\ \A M \in RangeOf(LastLN) \cap hasIV :
                  /\ LoopCosts[M] # Unknown
                  /\ LoopCosts[M]
                       = CostLoops(InitCosts(last.before.costs, LastLN), LastLN,
                                   LoopTripCounts, ReferenceGroups,
                                   hasIV \cup {L})[M]

\* A costed nest whose outer loop has no induction variable and whose inner
\* loop has one.
C7_Witness ==
    /\ Costed
    /\ \E i, j \in 1..Len(LastLN) :
          i < j /\ LastLN[i] \notin hasIV /\ LastLN[j] \in hasIV

\* C8: two runs of the pass on the same function leave the same CostTable and
\* the same TripCountTable.
C8_Idempotent ==
    Len(pass) = 2 => (pass[1].costs = pass[2].costs /\ pass[1].trip = pass[2].trip)

\* C9: when no loop of the nest has a trip count, every loop of the nest gets
\* STATIC_TRIP_COUNT (stated for a new instance and a nest of two loops or
\* more, where every read of setTripCounts is of an element of the table).
C9_AllFallback ==
    (/\ Costed
     /\ last.before.trip = <<>>
     /\ Len(LastLN) >= 2
     /\ \A L \in RangeOf(LastLN) : tripOf[L] = 0)
    => \A i \in 1..Len(NewEntries) : NewEntries[i][2] = STATIC_TRIP_COUNT

\* The count the claim C10 gives loop i of the nest LN: from the counts
\* recorded by the first loop of setTripCounts, with the fallback for 0.
C10_Expected(LN, i) ==
    LET rec(j) == tripOf[LN[j]]
        v == IF i = 1 THEN rec(2)
             ELSE IF i = Len(LN) THEN rec(i - 1)
             ELSE (rec(i - 1) + rec(i + 1)) \div 2
    IN  IF v = 0 THEN STATIC_TRIP_COUNT ELSE v

\* C10: every loop recorded with 0 gets the integer average of the counts
\* recorded for its predecessor and successor in the nest, the first loop
\* its successor's recorded count, the last its predecessor's (stated for a
\* new instance and a nest of two loops or more).
C10_AverageOfRecorded ==
    (Costed /\ last.before.trip = <<>> /\ Len(LastLN) >= 2)
    => \A i \in 1..Len(LastLN) :
          tripOf[LastLN[i]] = 0 => NewEntries[i][2] = C10_Expected(LastLN, i)

\* C11: for a nest of one loop whose trip count is unavailable, on a new
\* instance, setTripCounts leaves the fallback STATIC_TRIP_COUNT in the
\* loop's entry (it has read no value but the loop's own 0).
C11_SingleLoopFallback ==
    (/\ Costed
     /\ last.before.trip = <<>>
     /\ Len(LastLN) = 1
     /\ tripOf[LastLN[1]] = 0)
    => LoopTripCounts = <<<<LastLN[1], STATIC_TRIP_COUNT>>>>

\* A cost (a non-negative number) is greater than 0.
BigPositive(a) == a[Len(a)] > 0

\* C12: after setTripCounts every entry of the table is non-zero, and both
\* penalties are greater than 0 for every loop that reaches the assertion.
C12_TripCountsNonZero ==
    Costed =>
        /\ \A i \in 1..Len(LoopTripCounts) : LoopTripCounts[i][2] > 0
        /\ \A L \in RangeOf(LastLN) \cap hasIV :
              /\ LoopPenalties(LoopTripCounts, L)[1] > 0
              /\ BigPositive(LoopPenalties(LoopTripCounts, L)[2])

\* A costed nest of two loops or more, none with a trip count, each with an
\* induction variable.
C12_Witness ==
    /\ Costed
    /\ Len(LastLN) >= 2
    /\ \A L \in RangeOf(LastLN) : tripOf[L] = 0 /\ L \in hasIV

\* The blocks a run of the pass hands to CreateReferenceGroups, in order.
PassBlocks ==
    [i \in 1..Len(PerfectLoopNests) |->
        getInnerSingleBB(PerfectLoopNests[i][Len(PerfectLoopNests[i])])]

\* The GEPs of the blocks B.
GEPsOf(B) ==
    UNION {{<<B[i][1], B[i][2], k>> : k \in 1..Len(GEPsOfBlock(B[i]))} :
           i \in 1..Len(B)}

BlockPos(B, x) == CHOOSE i \in 1..Len(B) : B[i] = <<x[1], x[2]>>

\* The representatives on the list when the pass over the blocks B reached
\* the GEP x.
GroupsBefore(B, x) ==
    LET Earlier(e) == \/ BlockPos(B, e) < BlockPos(B, x)
                      \/ (BlockPos(B, e) = BlockPos(B, x) /\ e[3] < x[3])
    IN  SelectSeq(ReferenceGroups, Earlier)

\* x started a group.
IsRep(x) == x \in RangeOf(ReferenceGroups)

LastOp(x) == GEPAt(x)[Len(GEPAt(x))]

IsVector(v) == v.k = "vec"

\* Same operand count and identical leading operands.
SameLeading(x, r) ==
    /\ Len(GEPAt(x)) = Len(GEPAt(r))
    /\ \A i \in 1..(Len(GEPAt(x)) - 1) : GEPAt(x)[i] = GEPAt(r)[i]

\* Same operand count, identical leading operands, both last indices
\* symbolically evaluable.
Comparable(x, r) ==
    SameLeading(x, r) /\ ~IsVector(LastOp(x)) /\ ~IsVector(LastOp(r))

ConstDiff(x, r) == IsConstantDiff(getSCEV(LastOp(x)), getSCEV(LastOp(r)))

Diff(x, r) == DiffValue(getSCEV(LastOp(x)), getSCEV(LastOp(r)))

\* The representatives before x that are comparable with x.
Candidates(B, x) == {r \in RangeOf(GroupsBefore(B, x)) : Comparable(x, r)}

\* The representative of the group x is in: x itself, or the first one at
\* which the loop over the groups stopped with UniqueGEP = false.
GroupOf(B, x) ==
    IF IsRep(x) THEN x
    ELSE LET G == GroupsBefore(B, x)
             Joins(j) == MatchGroup(SubSeq(G, 1, j), 1, GEPAt(x)) = "join"
         IN  G[CHOOSE j \in 1..Len(G) : Joins(j) /\ \A i \in 1..(j - 1) : ~Joins(i)]

\* The group of every GEP of the blocks B.
GroupMap(B) == [x \in GEPsOf(B) |-> GroupOf(B, x)]

C14_GroupWithinLine ==
    (PassDone /\ nullDeref = "crash") =>
        LET G == GroupMap(PassBlocks)
        IN  \A x, y \in DOMAIN G :
                G[x] = G[y] =>
                    /\ ConstDiff(x, y)
                    /\ Diff(x, y) < LineSize
                    /\ Diff(y, x) < LineSize

\* C15: a run of the pass does not fail, and a reference whose difference
\* from a comparable representative is no constant is not in that
\* representative's group.
C15_NonConstantDiffSplits ==
    last.op = "run" =>
        /\ last.path = "done"
        /\ LET B == PassBlocks
           IN  \A x \in GEPsOf(B) :
                   \A r \in Candidates(B, x) : ~ConstDiff(x, r) => GroupOf(B, x) # r

\* C16: a reference whose last index is not symbolically evaluable starts a
\* group, and no other reference is in that group.
C16_VectorIndexAlone ==
    PassDone =>
        LET G == GroupMap(PassBlocks)
        IN  \A x \in DOMAIN G :
                IsVector(LastOp(x)) =>
                    /\ IsRep(x)
                    /\ \A y \in DOMAIN G \ {x} : G[y] # x

\* A run over a block where a reference with a vector index is followed by
\* references with the same leading operands, one of which joined a group.
C16_Witness ==
    /\ PassDone
    /\ \E x, y \in GEPsOf(PassBlocks) :
          /\ IsVector(LastOp(x))
          /\ x[1] = y[1] /\ x[2] = y[2] /\ y[3] > x[3]
          /\ SameLeading(x, y)
          /\ ~IsRep(y)

\* Index ni of the GEP depends on the induction variable of L, as ASTMatch
\* finds it.
DependsOn(GEP, ni, L) == ASTMatch(GEP[ni + 1], CanonicalIV(L))

DepPositions(GEP, L) == {ni \in 1..(Len(GEP) - 1) : DependsOn(GEP, ni, L)}

\* The contiguous position: the last index in row-major order, the second
\* in column-major order.
ContiguousPos(GEP) == IF AccessOrder = "ROWMAJOR" THEN Len(GEP) - 1 ELSE 2

\* The claim names one penalty: the dependent indices are not both at the
\* contiguous position and at another one.
OneStride(GEP, L) ==
    \/ ContiguousPos(GEP) \notin DepPositions(GEP, L)
    \/ DepPositions(GEP, L) = {ContiguousPos(GEP)}

\* The penalty of C17 for a group and a loop, in units of 1/LINE_SIZE; this
\* is the loop's own penalty.  this / LineSize, exact, is this units when
\* LineSize = LINE_SIZE.
C17_Penalty(GEP, L, this) ==
    IF ContiguousPos(GEP) \in DepPositions(GEP, L) THEN this
    ELSE IF DepPositions(GEP, L) # {} THEN this * LINE_SIZE
    ELSE LINE_SIZE

RECURSIVE C17_Sum(_, _, _, _)
\* The sum over the groups from j on of penalty times otherLoopPenalties.
C17_Sum(groups, j, L, pens) ==
    IF j > Len(groups) THEN BigOf(0)
    ELSE BigAdd(BigMulSmall(pens[2], C17_Penalty(GEPAt(groups[j]), L, pens[1])),
                C17_Sum(groups, j + 1, L, pens))

\* C17: the cost recorded for a loop with induction variable is the sum
\* over the reference groups of penalty times otherLoopPenalties, the
\* penalty being thisLoopPenalty / lineSize (exact) for a dependent index at
\* the contiguous position, thisLoopPenalty for one elsewhere, 1 for none
\* (for groups whose dependent indices name one of the three).
C17_CostIsSumOfPenalties ==
    Costed =>
        /\ LineSize = LINE_SIZE
        /\ \A L \in RangeOf(LastLN) \cap hasIV :
              (\A j \in 1..Len(ReferenceGroups) : OneStride(GEPAt(ReferenceGroups[j]), L))
              => LoopCosts[L]
                   = C17_Sum(ReferenceGroups, 1, L, LoopPenalties(LoopTripCounts, L))

\* A costed loop with a contiguous, a strided and an invariant group, the
\* trip count not a multiple of the line size.
C17_Witness ==
    /\ Costed
    /\ \E L \in RangeOf(LastLN) \cap hasIV :
          /\ LoopPenalties(LoopTripCounts, L)[1] % LineSize # 0
          /\ \A j \in 1..Len(ReferenceGroups) : OneStride(GEPAt(ReferenceGroups[j]), L)
          /\ \E j \in 1..Len(ReferenceGroups) :
                ContiguousPos(GEPAt(ReferenceGroups[j])) \in DepPositions(GEPAt(ReferenceGroups[j]), L)
          /\ \E j \in 1..Len(ReferenceGroups) :
                /\ DepPositions(GEPAt(ReferenceGroups[j]), L) # {}
                /\ ContiguousPos(GEPAt(ReferenceGroups[j])) \notin DepPositions(GEPAt(ReferenceGroups[j]), L)
          /\ \E j \in 1..Len(ReferenceGroups) :
                DepPositions(GEPAt(ReferenceGroups[j]), L) = {}

\* The first call on a new instance, in row-major order, with the nest of
\* the test: three loops of trip count TestTripCount around for.body6.
MatmulCosted ==
    /\ Costed
    /\ last.before.trip = <<>>
    /\ last.before.groups = <<>>
    /\ AccessOrder = "ROWMAJOR"
    /\ LineSize = LINE_SIZE
    /\ Len(LastLN) = 3
    /\ bodySel[LastLN[3]] = 5
    /\ \A L \in RangeOf(LastLN) : tripOf[L] = TestTripCount

\* n * TestTripCount^2
TimesTripSquared(n) == BigMulSmall(BigMulSmall(BigOf(n), TestTripCount), TestTripCount)

\* C18: on the nest of the test there are three groups and the costs are,
\* in units of 1/LINE_SIZE,
\*   innermost (4 + 5001 + 4 * 5001) * 5001^2 =  625475115009
\*             (a quarter of it is 156368778752.25, 1.563688e+11)
\*   middle    (5001 + 4 + 5001) * 5001^2     =  250250070006
\*             (62562517501.5, 6.256252e+10)
\*   outermost (4 * 5001 + 4 * 5001 + 4) * 5001^2 = 1000700160012
\*             (250175040003, 2.501750e+11)
C18_MatmulCosts ==
    MatmulCosted =>
        /\ Len(ReferenceGroups) = 3
        /\ LoopCosts[LastLN[3]] = TimesTripSquared(LINE_SIZE + TestTripCount + LINE_SIZE * TestTripCount)
        /\ LoopCosts[LastLN[3]] = <<5009, 7511, 6254>>
        /\ LoopCosts[LastLN[2]] = TimesTripSquared(TestTripCount + LINE_SIZE + TestTripCount)
        /\ LoopCosts[LastLN[2]] = <<6, 5007, 2502>>
        /\ LoopCosts[LastLN[1]] = TimesTripSquared(LINE_SIZE * TestTripCount + LINE_SIZE * TestTripCount + LINE_SIZE)
        /\ LoopCosts[LastLN[1]] = <<12, 16, 7, 1>>

\* The nest of the test has been costed and its three loops are in the map.
C18_Witness == MatmulCosted /\ DOMAIN LoopCosts = RangeOf(LastLN)

\* a < b for two costs that are not negative.
BigLess(a, b) ==
    \/ Len(a) < Len(b)
    \/ /\ Len(a) = Len(b)
       /\ \E i \in 1..Len(a) :
             a[i] < b[i] /\ \A j \in (i + 1)..Len(a) : a[j] = b[j]

\* C19: on the nest of the test the innermost loop has the highest cost of
\* the three.
C19_InnermostHighest ==
    MatmulCosted =>
        /\ BigLess(LoopCosts[LastLN[2]], LoopCosts[LastLN[3]])
        /\ BigLess(LoopCosts[LastLN[1]], LoopCosts[LastLN[3]])

\* C19, amended: on the nest of the test the outermost loop has the highest
\* cost and the middle loop the lowest.
C19_OutermostHighest ==
    MatmulCosted =>
        /\ BigLess(LoopCosts[LastLN[2]], LoopCosts[LastLN[3]])
        /\ BigLess(LoopCosts[LastLN[3]], LoopCosts[LastLN[1]])

\* The nest of the test has been costed and no cost of it is -1.0.
C19_Witness ==
    MatmulCosted /\ \A L \in RangeOf(LastLN) : LoopCosts[L] # Unknown

\* The groups a new instance makes of the innermost body block of LN.
GroupsOfNest(LN) == CreateReferenceGroups(<<>>, getInnerSingleBB(LN[Len(LN)]))[1]

\* The nests the cost pass accepts.
CostedNests ==
    {LN \in Chains : IsPerfectNest(LN) /\ getInnerSingleBB(LN[Len(LN)]) # NoBlock}

\* The loops of LN whose penalty for the GEP is thisLoopPenalty / lineSize
\* under the access order given (LINE_SIZE units are the penalty 1).
DiscountLoops(order, LN, GEP) ==
    {L \in RangeOf(LN) \cap hasIV :
        RefPenaltyIn(order, GEP, 1, CanonicalIV(L), tripOf[L], LINE_SIZE)
            = (tripOf[L] * LINE_SIZE) \div LineSize}

\* C20: when AccessOrder is switched, for every nest and every reference
\* group with an index that depends on the induction variable of a loop of
\* the nest, the set of loops with penalty thisLoopPenalty / lineSize changes.
C20_OrderChangesDiscount ==
    [][AccessOrder' # AccessOrder =>
        \A LN \in CostedNests :
            \A j \in 1..Len(GroupsOfNest(LN)) :
                LET GEP == GEPAt(GroupsOfNest(LN)[j])
                IN  (\E L \in RangeOf(LN) : DepPositions(GEP, L) # {})
                    => DiscountLoops(AccessOrder', LN, GEP) # DiscountLoops(AccessOrder, LN, GEP)]_vars

\* C20, amended: when AccessOrder is switched, the set changes for every
\* reference group with three indices or more whose last index depends on
\* the induction variable of a loop of the nest, and stays the same for
\* every reference group with two indices.
C20_OrderChangesLastIndex ==
    [][AccessOrder' # AccessOrder =>
        \A LN \in CostedNests :
            \A j \in 1..Len(GroupsOfNest(LN)) :
                LET GEP == GEPAt(GroupsOfNest(LN)[j])
                    ne == Len(GEP) - 1
                IN  /\ (ne >= 3 /\ \E L \in RangeOf(LN) : DependsOn(GEP, ne, L))
                        => DiscountLoops(AccessOrder', LN, GEP) # DiscountLoops(AccessOrder, LN, GEP)
                    /\ ne = 2
                        => DiscountLoops(AccessOrder', LN, GEP) = DiscountLoops(AccessOrder, LN, GEP)]_vars

\* A nest has been costed in column-major order with a group of three
\* indices whose last index depends on a loop of the nest, or with a group
\* of two indices one of which does.
C20_Witness ==
    /\ Costed
    /\ AccessOrder = "COLUMNMAJOR"
    /\ \E j \in 1..Len(ReferenceGroups) :
          LET GEP == GEPAt(ReferenceGroups[j])
          IN  /\ Len(GEP) - 1 >= 2
              /\ \E L \in RangeOf(LastLN) : DependsOn(GEP, Len(GEP) - 1, L)

\* The blocks of L that are neither its header, its latch nor an empty block.
WorkBlocks(L) ==
    {bb \in BlocksOf(L) : bb # Header(L) /\ bb # Latch(L) /\ ~IsEmptyBlock(bb)}

\* The last call was made with a perfect nest whose innermost loop has no
\* block with instructions, or more than one.
NoSingleBlock ==
    /\ Called
    /\ IsPerfectNest(LastLN)
    /\ Cardinality(WorkBlocks(LastLN[Len(LastLN)])) # 1

\* C21: a call with a perfect nest whose innermost loop does not have
\* exactly one block with instructions adds no reference group and no trip
\* count, and ends with every loop of the nest at -1.0.
C21_NoSingleBlockAllUnknown ==
    NoSingleBlock =>
        /\ last.path = "nobb"
        /\ ReferenceGroups = last.before.groups
        /\ LoopTripCounts = last.before.trip
        /\ \A L \in RangeOf(LastLN) : getLoopCostOf(LoopCosts, L) = Unknown

\* A nest whose innermost loop has two blocks with instructions was passed
\* to an instance that holds the groups and trip counts of an earlier nest.
C21_Witness ==
    /\ NoSingleBlock
    /\ Cardinality(WorkBlocks(LastLN[Len(LastLN)])) > 1
    /\ last.before.groups # <<>>
    /\ last.before.trip # <<>>

\* C28: a call leaves the entry of every loop outside the nest as it was:
\* absent if it was absent, with the same cost if it was present.
C28_OthersUntouched ==
    Called =>
        \A L \in Loops \ RangeOf(LastLN) :
            /\ (L \in DOMAIN LoopCosts) = (L \in DOMAIN last.before.costs)
            /\ L \in DOMAIN LoopCosts => LoopCosts[L] = last.before.costs[L]

\* A call that went through the cost pass while a loop outside the nest held
\* a computed cost.
C28_Witness ==
    /\ Costed
    /\ \E L \in DOMAIN last.before.costs \ RangeOf(LastLN) :
          last.before.costs[L] # Unknown

\* The nests found under the sub-loops of L, and under L, by a detector that
\* starts with an empty list.
ChildChains(L) == PopulateFrom(SubLoops(L), TRUE, <<>>)[2]

ChainsUnder(L) == PopulatePerfectLoopNestsUnder(L, <<>>)[2]

HasSubLoops(L) == \E c \in Loops : parent[c] = L

InNestOf(nests, L) == \E i \in 1..Len(nests) : L \in RangeOf(nests[i])

\* The condition of C22 for a loop L with sub-loops: one child, the head of
\* a chain found; L not rotated; every block of L itself besides header and
\* latch an empty block.
C22_Condition(L) ==
    /\ Cardinality({c \in Loops : parent[c] = L}) = 1
    /\ \E i \in 1..Len(ChildChains(L)) : parent[ChildChains(L)[i][1]] = L
    /\ L \notin rotated
    /\ \A i \in 1..Len(bodyKinds[L]) : bodyKinds[L][i] = "stub"

\* C22: a loop with sub-loops is put in front of the chain headed by its
\* child exactly under the condition of the claim; otherwise the chains
\* found under its sub-loops are the output as they are and the loop is in
\* no nest.  The same holds for membership in the nests of the pass.
C22_PrependedIff ==
    PassDone =>
        LET nests == PerfectLoopNests
        IN  \A L \in {M \in Loops : HasSubLoops(M)} :
                LET C == ChildChains(L)
                    U == ChainsUnder(L)
                IN  IF C22_Condition(L)
                    THEN /\ \E i \in 1..Len(C) :
                               /\ parent[C[i][1]] = L
                               /\ U = [C EXCEPT ![i] = <<L>> \o C[i]]
                         /\ InNestOf(nests, L)
                    ELSE /\ U = C
                         /\ ~InNestOf(nests, L)

\* The pass has run on a function where one loop was put in front of its
\* child's chain and the loop around it was not, the chain staying a nest.
C22_Witness ==
    /\ PassDone
    /\ \E L, M \in Loops :
          /\ parent[L] = M
          /\ HasSubLoops(L)
          /\ C22_Condition(L)
          /\ ~C22_Condition(M)
          /\ \E i \in 1..Len(PerfectLoopNests) : PerfectLoopNests[i][1] = L

\* C24: every nest of the detector is non-empty, lists each loop before its
\* only child down to a loop without sub-loops, and passes IsPerfectNest, so
\* that calculateLoopCosts does not return at the perfection test.
C24_EmittedNestsPerfect ==
    PassDone =>
        LET nests == PerfectLoopNests
        IN  \A i \in 1..Len(nests) :
                LET LN == nests[i]
                IN  /\ LN # <<>>
                    /\ \A k \in 1..(Len(LN) - 1) : parent[LN[k + 1]] = LN[k]
                    /\ ~HasSubLoops(LN[Len(LN)])
                    /\ IsPerfectNest(LN)
                    /\ calculateLoopCosts(NewLoopCost, LN, 0).path # "notperfect"

\* The pass has run on a function where the detector emitted a nest of two
\* loops or more next to loops it left out, and costed it.
C24_Witness ==
    /\ PassDone
    /\ \E i \in 1..Len(PerfectLoopNests) :
          /\ Len(PerfectLoopNests[i]) >= 2
          /\ \A L \in RangeOf(PerfectLoopNests[i]) : getLoopCostOf(LoopCosts, L) # Unknown
    /\ \E L \in Loops : ~InNestOf(PerfectLoopNests, L)

\* C27: no loop is in two nests of the detector, nor twice in one, so that
\* the entry of a loop is written by at most one call of a run of the pass.
C27_NestsDisjoint ==
    PassDone =>
        LET nests == PerfectLoopNests
        IN  /\ \A i, j \in 1..Len(nests) :
                  i # j => RangeOf(nests[i]) \cap RangeOf(nests[j]) = {}
            /\ \A i \in 1..Len(nests) : Cardinality(RangeOf(nests[i])) = Len(nests[i])
            /\ \A L \in Loops :
                  Cardinality({i \in 1..Len(nests) : L \in RangeOf(nests[i])}) <= 1

\* The pass has run on a function with two nests or more, one of them of two
\* loops or more.
C27_Witness ==
    /\ PassDone
    /\ Len(PerfectLoopNests) >= 2
    /\ \E i \in 1..Len(PerfectLoopNests) : Len(PerfectLoopNests[i]) >= 2

\* C23: a loop whose header or latch holds work besides the loop control is
\* in no nest of the detector, in no nest that passes IsPerfectNest, and
\* its cost is -1.0 after the pass.
C23_HeaderWorkExcluded ==
    PassDone =>
        \A L \in headerWork :
            /\ ~InNestOf(PerfectLoopNests, L)
            /\ \A LN \in Chains : L \in RangeOf(LN) => ~IsPerfectNest(LN)
            /\ getLoopCostOf(LoopCosts, L) = Unknown

\* The penalty computed at index position ni alone, in units of 1/LINE_SIZE.
PenaltyAt(GEP, ni, this) ==
    IF ni = ContiguousPos(GEP) THEN (this * LINE_SIZE) \div LineSize ELSE this * LINE_SIZE

HighestPos(S) == CHOOSE ni \in S : \A other \in S : other <= ni

RECURSIVE SumOver(_, _, _, _)
\* The sum of the penalties at the positions S.
SumOver(S, GEP, this, acc) ==
    IF S = {} THEN acc
    ELSE LET ni == CHOOSE x \in S : TRUE
         IN  SumOver(S \ {ni}, GEP, this, acc + PenaltyAt(GEP, ni, this))

MaxOver(S, GEP, this) ==
    CHOOSE p \in {PenaltyAt(GEP, ni, this) : ni \in S} :
        \A ni \in S : PenaltyAt(GEP, ni, this) <= p

\* The penalty of a group for a loop under the rule of C25.
C25_Penalty(GEP, L, this) ==
    IF DepPositions(GEP, L) = {} THEN LINE_SIZE
    ELSE PenaltyAt(GEP, HighestPos(DepPositions(GEP, L)), this)

RECURSIVE C25_Sum(_, _, _, _)
C25_Sum(groups, j, L, pens) ==
    IF j > Len(groups) THEN BigOf(0)
    ELSE BigAdd(BigMulSmall(pens[2], C25_Penalty(GEPAt(groups[j]), L, pens[1])),
                C25_Sum(groups, j + 1, L, pens))

\* C25: for a group whose representative depends on the induction variable
\* of L at more than one index position, the penalty is the one of the
\* highest matching position alone; it is not the sum of the penalties of
\* the matching positions, and it is less than their maximum when the
\* highest matching position is the contiguous one and another is not.
\* The cost recorded for L is the sum over the groups with these penalties.
C25_LastMatchWins ==
    Costed =>
        \A L \in RangeOf(LastLN) \cap hasIV :
            LET pens == LoopPenalties(LoopTripCounts, L)
                this == pens[1]
            IN  /\ LoopCosts[L] = C25_Sum(ReferenceGroups, 1, L, pens)
                /\ \A j \in 1..Len(ReferenceGroups) :
                      LET GEP == GEPAt(ReferenceGroups[j])
                          S == DepPositions(GEP, L)
                          pen == ThisRefPenalty(GEP, CanonicalIV(L), this)
                      IN  Cardinality(S) >= 2 =>
                              /\ pen = PenaltyAt(GEP, HighestPos(S), this)
                              /\ pen # SumOver(S, GEP, this, 0)
                              /\ (/\ HighestPos(S) = ContiguousPos(GEP)
                                  /\ LineSize > 1)
                                 => pen < MaxOver(S, GEP, this)

\* A loop has been costed in row-major order with a group that depends on
\* its induction variable at a strided position and, after it, at the
\* contiguous one, and with a group that depends on it at two strided
\* positions.
C25_Witness ==
    /\ Costed
    /\ AccessOrder = "ROWMAJOR"
    /\ \E L \in RangeOf(LastLN) \cap hasIV :
          /\ \E j \in 1..Len(ReferenceGroups) :
                LET S == DepPositions(GEPAt(ReferenceGroups[j]), L)
                IN  /\ Cardinality(S) >= 2
                    /\ HighestPos(S) = ContiguousPos(GEPAt(ReferenceGroups[j]))
          /\ \E j \in 1..Len(ReferenceGroups) :
                LET S == DepPositions(GEPAt(ReferenceGroups[j]), L)
                IN  /\ Cardinality(S) >= 2
                    /\ ContiguousPos(GEPAt(ReferenceGroups[j])) \notin S

\* C26: in every state reached by constructing instances and calling
\* calculateLoopCosts on them, the line size is the default LINE_SIZE, which
\* is not zero: no division of a penalty is by zero.
C26_LineSizeNonZero == LineSize = LINE_SIZE /\ LineSize # 0

\* The second call on an instance has computed a penalty by dividing by the
\* line size.
C26_Witness ==
    /\ Costed
    /\ Len(last.calls) = 2
    /\ \E L \in RangeOf(LastLN) \cap hasIV :
          \E j \in 1..Len(ReferenceGroups) :
              ContiguousPos(GEPAt(ReferenceGroups[j]))
                  \in DepPositions(GEPAt(ReferenceGroups[j]), L)

\* The outermost call has returned.
MatchDone == match.frames = <<>> /\ match.ret # "none"

RECURSIVE InstClosure(_)
\* The values reached from the set S along operand edges through
\* instructions that are no phi nodes.
InstClosure(S) ==
    LET T == S \cup {m \in Nodes : \E n \in S :
                        /\ KindOf(n) = "inst"
                        /\ \E i \in 1..Len(OpsOf(n)) : OpsOf(n)[i] = m}
    IN  IF T = S THEN S ELSE InstClosure(T)

\* Every cycle of the operand graph passes through a phi node: no
\* instruction that is no phi node reaches itself through such instructions.
PhiOnEveryCycle ==
    \A n \in Nodes :
        KindOf(n) = "inst" =>
            n \notin InstClosure({OpsOf(n)[i] : i \in 1..Len(OpsOf(n))})

RECURSIVE ReachesFrom(_)
\* The values from which a path along operand edges leads into W, every
\* value on it before W an instruction that is no phi node.
ReachesFrom(W) ==
    LET V == W \cup {n \in Nodes :
                        /\ KindOf(n) = "inst"
                        /\ \E i \in 1..Len(OpsOf(n)) : OpsOf(n)[i] \in W}
    IN  IF V = W THEN W ELSE ReachesFrom(V)

\* C29: on a graph where every cycle passes through a phi node the call
\* returns; and a call that returns, returns true exactly when P is reached
\* from Operand by a path whose only phi node, if it has one, is P at its
\* end.
C29_ASTMatchTerminates ==
    /\ PhiOnEveryCycle => <>MatchDone
    /\ [](MatchDone => ((match.ret = "true") = (graph.Operand \in ReachesFrom({graph.P}))))

\* A call has returned true on a graph whose cycles pass through phi nodes,
\* for an operand that is an instruction and does not use P itself: P is
\* found two levels down, and the instruction that uses P is an incoming
\* value of P.
C29_Witness ==
    /\ MatchDone
    /\ match.ret = "true"
    /\ PhiOnEveryCycle
    /\ KindOf(graph.Operand) = "inst"
    /\ \A i \in 1..Len(OpsOf(graph.Operand)) : OpsOf(graph.Operand)[i] # graph.P
    /\ \E i \in 1..Len(OpsOf(graph.P)) : OpsOf(graph.P)[i] # graph.Operand

=============================================================================
